---- MODULE Spec2Model ----
(***************************************************************************)
(* Model of animesubs (src-tauri/src/lib.rs).                               *)
(*                                                                         *)
(* translate_subtitles: batching of dialog lines, wave-wise dispatch of    *)
(* batch tasks with tokio::spawn, the join barrier, the shared translation *)
(* map / completed counter, the progress and error events, and the final   *)
(* application of the translations to the document (Spec, SpecPlan).       *)
(*                                                                         *)
(* call_llm_api, build_translation_prompt and clean_json_response, each on *)
(* its own (SpecLlm, SpecPrompt, SpecClean).                               *)
(*                                                                         *)
(* The way of a subtitle file through parse_subtitle_file, the translation *)
(* and save_translated_subtitles, with the three parsers and the three     *)
(* reconstructors working on the text of the file (SpecFile).              *)
(***************************************************************************)
EXTENDS Integers, Sequences, FiniteSets, TLC

(***************************************************************************)
(* Bounds of the model.                                                    *)
(***************************************************************************)
\* largest document (number of dialog lines) of a full run
MaxLines == 3
\* largest explicit batch_size argument of a full run
MaxBatchSize == 2
\* largest number of entries in one LLM response
MaxResp == 2
\* largest document of the batching-only specification
MaxPlanLines == 45

(***************************************************************************)
(* Program constants.                                                      *)
(***************************************************************************)
\* batch_size.unwrap_or(20)
DefaultBatchSize == 20
\* concurrency.unwrap_or(1)
DefaultConcurrency == 1
\* .max(1)
MinConcurrency == 1
\* .min(10)
MaxConcurrency == 10
\* request_delay.unwrap_or(0)
DefaultRequestDelay == 0

(***************************************************************************)
(* Option<T>: None is the empty sequence, Some(v) the one-element one.     *)
(***************************************************************************)
None == <<>>
Some(v) == <<v>>
unwrap_or(o, d) == IF o = None THEN d ELSE o[1]

Max2(a, b) == IF a >= b THEN a ELSE b
Min2(a, b) == IF a <= b THEN a ELSE b

(***************************************************************************)
(* The input documents.  A document is what the parsers emit: the k-th     *)
(* line (from 0) has index k (index: lines.len()) and line_count is the    *)
(* number of lines.                                                        *)
(***************************************************************************)
OrigText(k) == "src" \o ToString(k)

DialogLine(k) ==
    [index |-> k,
     text |-> OrigText(k),
     original_with_formatting |-> "{\\i1}" \o OrigText(k),
     start |-> "0:00:0" \o ToString(k % 10) \o ".00",
     end |-> "0:00:0" \o ToString(k % 10) \o ".90",
     style |-> Some("Default"),
     name |-> None]

Doc(n) ==
    [format |-> "ass",
     lines |-> [k \in 1..n |-> DialogLine(k - 1)],
     line_count |-> n,
     source_path |-> "/video/ep01.ass",
     ass_header |-> Some("[Script Info]")]

\* the arguments a caller may pass
BatchSizeArgs == {None} \cup {Some(b) : b \in 0..MaxBatchSize}
ConcurrencyArgs == {None, Some(0), Some(1), Some(2), Some(5), Some(100)}
RequestDelayArgs == {None, Some(1)}

VARIABLES
    subtitle_data,      \* argument: the document
    arg_batch_size,     \* argument: Option<usize>
    arg_concurrency,    \* argument: Option<usize>
    arg_request_delay,  \* argument: Option<u64>
    pc,                 \* position of the translate_subtitles future
    batches,            \* Vec<(usize, Vec<TranslationLine>)>
    group,              \* ordinal of the current batch_group (wave)
    handles,            \* batch indices spawned in the current wave, in order
    task,               \* per batch: state of its spawned task
    resp,               \* per batch: the translations call_llm_api returned
    calls,              \* per batch: number of call_llm_api invocations
    map_lock,           \* holder of the translation_map mutex (None = free)
    translation_map,    \* HashMap<usize, String>
    completed_batches,  \* the shared counter
    events,             \* what app.emit has been given, in emission order
    result,             \* what translate_subtitles returned
    op,                     \* the operation under study and its stage
    input,                  \* the input of a parser, reconstructor or LLM call
    output                  \* what that operation produced

vars == <<subtitle_data, arg_batch_size, arg_concurrency, arg_request_delay,
          pc, batches, group, handles, task, resp, calls, map_lock,
          translation_map, completed_batches, events, result,
          op, input, output>>

\* the variables of the single-function specifications
unit == <<op, input, output>>

args == <<subtitle_data, arg_batch_size, arg_concurrency, arg_request_delay>>

(***************************************************************************)
(* Locals computed at the head of translate_subtitles.                     *)
(***************************************************************************)
batch_size == unwrap_or(arg_batch_size, DefaultBatchSize)

\* the clamp without its upper end
ClampNoUpper(c) == Max2(unwrap_or(c, DefaultConcurrency), MinConcurrency)

Clamp(c) == Min2(Max2(unwrap_or(c, DefaultConcurrency), MinConcurrency), MaxConcurrency)

concurrency == Clamp(arg_concurrency)

request_delay_ms == unwrap_or(arg_request_delay, DefaultRequestDelay)

total_lines == Len(subtitle_data.lines)

total_batches == Len(batches)

(***************************************************************************)
(* slice.chunks(n): consecutive runs of n elements, the last one shorter.  *)
(* Panics when n = 0 (handled by the caller of this operator).             *)
(***************************************************************************)
\* chunks_exact(n): the shorter remainder is left out
RECURSIVE ChunksExact(_, _)
ChunksExact(s, n) ==
    IF Len(s) < n THEN <<>>
    ELSE <<SubSeq(s, 1, n)>> \o ChunksExact(SubSeq(s, n + 1, Len(s)), n)

RECURSIVE Chunks(_, _)
Chunks(s, n) ==
    IF Len(s) = 0 THEN <<>>
    ELSE IF Len(s) <= n THEN <<s>>
    ELSE <<SubSeq(s, 1, n)>> \o Chunks(SubSeq(s, n + 1, Len(s)), n)

TranslationLine(line) == [id |-> line.index, text |-> line.text]

\* lines 1073-1087: chunks(batch_size).enumerate().map(...)
BuildBatches(lines, n) ==
    LET cs == Chunks(lines, n)
    IN [i \in 1..Len(cs) |->
          [idx |-> i - 1,
           lines |-> [j \in 1..Len(cs[i]) |-> TranslationLine(cs[i][j])]]]

\* batches.chunks(concurrency): the batch indices of wave g (from 0)
WaveOf(b) == b \div concurrency
GroupFirst(g) == g * concurrency
GroupLast(g) == Min2((g + 1) * concurrency, total_batches) - 1
GroupSize(g) == GroupLast(g) - GroupFirst(g) + 1
NumGroups == (total_batches + concurrency - 1) \div concurrency

Init ==
    /\ subtitle_data \in {Doc(n) : n \in 0..MaxLines}
    /\ arg_batch_size \in BatchSizeArgs
    /\ arg_concurrency \in ConcurrencyArgs
    /\ arg_request_delay \in RequestDelayArgs
    /\ pc = "start"
    /\ batches = <<>>
    /\ group = 0
    /\ handles = <<>>
    /\ task = <<>>
    /\ resp = <<>>
    /\ calls = <<>>
    /\ map_lock = None
    /\ translation_map = <<>>
    /\ completed_batches = 0
    /\ events = <<>>
    /\ result = [tag |-> "Pending"]
    /\ op = "translate_subtitles"
    /\ input = <<>>
    /\ output = <<>>

\* the emptiness test left out
IsEmptyInputNever == FALSE

\* line 1065: if total_lines == 0
IsEmptyInput == total_lines = 0

\* lines 1065-1067
RejectEmpty ==
    /\ pc = "start"
    /\ IsEmptyInput
    /\ pc' = "returned"
    /\ result' = [tag |-> "Err", msg |-> "No dialog lines to translate"]
    /\ UNCHANGED <<unit, args, batches, group, handles, task, resp, calls, map_lock,
                   translation_map, completed_batches, events>>

\* line 1075: chunks(0) panics
ChunksPanic ==
    /\ pc = "start"
    /\ ~IsEmptyInput
    /\ batch_size = 0
    /\ pc' = "panicked"
    /\ UNCHANGED <<unit, args, batches, group, handles, task, resp, calls, map_lock,
                   translation_map, completed_batches, events, result>>

\* lines 1069-1089
Plan ==
    /\ pc = "start"
    /\ ~IsEmptyInput
    /\ batch_size # 0
    /\ batches' = BuildBatches(subtitle_data.lines, batch_size)
    /\ task' = [b \in 0..(Len(batches') - 1) |-> "none"]
    /\ resp' = [b \in 0..(Len(batches') - 1) |-> <<>>]
    /\ calls' = [b \in 0..(Len(batches') - 1) |-> 0]
    /\ pc' = IF Len(batches') = 0 THEN "apply" ELSE "spawn"
    /\ UNCHANGED <<unit, args, group, handles, map_lock, translation_map,
                   completed_batches, events, result>>

PlanNext == RejectEmpty \/ ChunksPanic \/ Plan

(***************************************************************************)
(* What call_llm_api may return for a batch.  Ok(translations): the ids    *)
(* returned are any at most MaxResp of the ids submitted and of one id     *)
(* that was not submitted (the index following the batch: a line of the    *)
(* next batch, or no line at all after the last batch).  The text names    *)
(* the responding call and the id, so that translations are told apart.    *)
(***************************************************************************)
TrText(b, id) == "tr" \o ToString(b) \o "_" \o ToString(id)

SubmittedIds(b) == {batches[b + 1].lines[j].id : j \in 1..Len(batches[b + 1].lines)}

CandidateIds(b) ==
    LET ls == batches[b + 1].lines
    IN [j \in 1..(Len(ls) + 1) |-> IF j <= Len(ls) THEN ls[j].id ELSE ls[Len(ls)].id + 1]

RECURSIVE Pick(_, _)
Pick(s, keep) ==
    IF Len(s) = 0 THEN <<>>
    ELSE Pick(SubSeq(s, 1, Len(s) - 1), keep)
         \o (IF Len(s) \in keep THEN <<s[Len(s)]>> ELSE <<>>)

Responses(b) ==
    LET c == CandidateIds(b)
        ts == [j \in 1..Len(c) |-> [id |-> c[j], text |-> TrText(b, c[j])]]
    IN {Pick(ts, keep) : keep \in {k \in SUBSET (1..Len(c)) : Cardinality(k) <= MaxResp}}

(***************************************************************************)
(* HashMap<usize, String> as a function; insert overwrites.                *)
(***************************************************************************)
MapInsert(m, k, v) == [x \in (DOMAIN m) \cup {k} |-> IF x = k THEN v ELSE m[x]]

\* lines 1108-1110: for translated in translations { map.insert(id, text) }
RECURSIVE InsertAll(_, _)
InsertAll(m, translations) ==
    IF Len(translations) = 0 THEN m
    ELSE InsertAll(MapInsert(m, translations[1].id, translations[1].text),
                   Tail(translations))

\* the event built from the count before the bump
ProgressEventBeforeBump(done, map) ==
    [kind |-> "translation-progress",
     current_batch |-> done - 1,
     total_batches |-> total_batches,
     lines_translated |-> Cardinality(DOMAIN map),
     total_lines |-> total_lines,
     status |-> "translating"]

\* lines 1114-1124: the ProgressEvent payload
ProgressEvent(done, map) ==
    [kind |-> "translation-progress",
     current_batch |-> done,
     total_batches |-> total_batches,
     lines_translated |-> Cardinality(DOMAIN map),
     total_lines |-> total_lines,
     status |-> "translating"]

ErrorEvent(b) == [kind |-> "translation-error", batch |-> b + 1]

Resolved(b) == task[b] \in {"ok", "err"}

(***************************************************************************)
(* The wave loop of translate_subtitles (lines 1091-1159).                 *)
(***************************************************************************)
\* the batch the spawning loop is at
NextToSpawn == GroupFirst(group) + Len(handles)

\* lines 1094-1144: one iteration of the inner loop, tokio::spawn of a task
\* that starts with call_llm_api
Spawn ==
    /\ pc = "spawn"
    /\ LET b == NextToSpawn
       IN /\ task' = [task EXCEPT ![b] = "calling"]
          /\ calls' = [calls EXCEPT ![b] = @ + 1]
          /\ handles' = Append(handles, b)
          /\ pc' = IF b = GroupLast(group) THEN "join" ELSE "spawn"
    /\ UNCHANGED <<unit, args, batches, group, resp, map_lock, translation_map,
                   completed_batches, events, result>>

\* line 1105-1106: call_llm_api returned Ok(translations); the task now
\* waits for the translation_map mutex
CallOk(b) ==
    /\ task[b] = "calling"
    /\ \E r \in Responses(b) : resp' = [resp EXCEPT ![b] = r]
    /\ task' = [task EXCEPT ![b] = "wait_map"]
    /\ UNCHANGED <<unit, args, pc, batches, group, handles, calls, map_lock,
                   translation_map, completed_batches, events, result>>

\* a failed call that is sent again instead of failing the task
CallErrRetry(b) ==
    /\ task[b] = "calling"
    /\ calls' = [calls EXCEPT ![b] = @ + 1]
    /\ UNCHANGED <<unit, args, pc, batches, group, handles, task, resp, map_lock,
                   translation_map, completed_batches, events, result>>

\* lines 1129-1139: call_llm_api returned Err(e)
CallErr(b) ==
    /\ task[b] = "calling"
    /\ events' = Append(events, ErrorEvent(b))
    /\ task' = [task EXCEPT ![b] = "err"]
    /\ UNCHANGED <<unit, args, pc, batches, group, handles, resp, calls, map_lock,
                   translation_map, completed_batches, result>>

\* lines 1107-1110: translation_map.lock().await granted, the inserts, and
\* then the wait for the completed_batches mutex with the map guard held
Merge(b) ==
    /\ task[b] = "wait_map"
    /\ map_lock = None
    /\ map_lock' = Some(b)
    /\ translation_map' = InsertAll(translation_map, resp[b])
    /\ task' = [task EXCEPT ![b] = "wait_completed"]
    /\ UNCHANGED <<unit, args, pc, batches, group, handles, resp, calls,
                   completed_batches, events, result>>

\* lines 1112-1127: completed_batches.lock().await granted (that mutex is
\* only taken here, by the holder of the map mutex, and released in the same
\* step), the bump, the progress event, and both guards dropped
Progress(b) ==
    /\ task[b] = "wait_completed"
    /\ map_lock = Some(b)
    /\ completed_batches' = completed_batches + 1
    /\ events' = Append(events, ProgressEvent(completed_batches', translation_map))
    /\ map_lock' = None
    /\ task' = [task EXCEPT ![b] = "ok"]
    /\ UNCHANGED <<unit, args, pc, batches, group, handles, resp, calls,
                   translation_map, result>>

\* a join that waits for the first handle only
JoinReadyFirst(hs) == Resolved(hs[1])

\* line 1146: join_all(handles).await is ready
JoinReady(hs) == \A i \in 1..Len(hs) : Resolved(hs[i])

\* a result loop that looks at the first result only
WaveFailedFirst(hs) == task[hs[1]] = "err"

\* lines 1148-1154: some result of the wave is Ok(Err(e))
WaveFailed(hs) == \E i \in 1..Len(hs) : task[hs[i]] = "err"

\* lines 1148-1154: the first failed task in handle order
FirstFailed(hs) ==
    hs[CHOOSE i \in 1..Len(hs) :
          /\ task[hs[i]] = "err"
          /\ \A j \in 1..(i - 1) : task[hs[j]] # "err"]

\* after a wave (and its sleep): the next batch_group, or the end of the loop
Advance ==
    IF GroupLast(group) + 1 < total_batches
    THEN /\ group' = group + 1
         /\ handles' = <<>>
         /\ pc' = "spawn"
    ELSE /\ pc' = "apply"
         /\ UNCHANGED <<group, handles>>

\* lines 1146-1154, a task failed: return Err(e)
JoinFail ==
    /\ pc = "join"
    /\ JoinReady(handles)
    /\ WaveFailed(handles)
    /\ result' = [tag |-> "Err",
                  msg |-> "Translation failed at batch",
                  batch |-> FirstFailed(handles) + 1]
    /\ pc' = "returned"
    /\ UNCHANGED <<unit, args, batches, group, handles, task, resp, calls, map_lock,
                   translation_map, completed_batches, events>>

\* lines 1146-1158, every task of the wave returned Ok(())
JoinPass ==
    /\ pc = "join"
    /\ JoinReady(handles)
    /\ ~WaveFailed(handles)
    /\ IF request_delay_ms > 0
       THEN pc' = "sleep" /\ UNCHANGED <<group, handles>>
       ELSE Advance
    /\ UNCHANGED <<unit, args, batches, task, resp, calls, map_lock,
                   translation_map, completed_batches, events, result>>

\* lines 1156-1158: the sleep is over
Wake ==
    /\ pc = "sleep"
    /\ Advance
    /\ UNCHANGED <<unit, args, batches, task, resp, calls, map_lock,
                   translation_map, completed_batches, events, result>>

\* the lookup keyed by the position in the vector instead of line.index
ApplyByPosition(lines, map) ==
    [k \in 1..Len(lines) |->
        IF k \in DOMAIN map
        THEN [lines[k] EXCEPT !.text = map[k]]
        ELSE lines[k]]

\* lines 1163-1167
ApplyTranslations(lines, map) ==
    [k \in 1..Len(lines) |->
        IF lines[k].index \in DOMAIN map
        THEN [lines[k] EXCEPT !.text = map[lines[k].index]]
        ELSE lines[k]]

\* lines 1161-1175
Finish ==
    /\ pc = "apply"
    /\ map_lock = None
    /\ LET translated_lines == ApplyTranslations(subtitle_data.lines, translation_map)
       IN result' = [tag |-> "Ok",
                     doc |-> [format |-> subtitle_data.format,
                              line_count |-> Len(translated_lines),
                              lines |-> translated_lines,
                              source_path |-> subtitle_data.source_path,
                              ass_header |-> subtitle_data.ass_header]]
    /\ pc' = "returned"
    /\ UNCHANGED <<unit, args, batches, group, handles, task, resp, calls, map_lock,
                   translation_map, completed_batches, events>>

\* the caller drops the future while it is suspended (at the join or in the
\* sleep).  The JoinHandles are dropped with it, which detaches the spawned
\* tasks: they keep running.
Cancel ==
    /\ pc \in {"join", "sleep"}
    /\ pc' = "cancelled"
    /\ UNCHANGED <<unit, args, batches, group, handles, task, resp, calls, map_lock,
                   translation_map, completed_batches, events, result>>

TaskNext ==
    \/ \E b \in DOMAIN task : CallOk(b)
    \/ \E b \in DOMAIN task : CallErr(b)
    \/ \E b \in DOMAIN task : Merge(b)
    \/ \E b \in DOMAIN task : Progress(b)

Next ==
    \/ RejectEmpty
    \/ ChunksPanic
    \/ Plan
    \/ Spawn
    \/ TaskNext
    \/ JoinFail
    \/ JoinPass
    \/ Wake
    \/ Finish
    \/ Cancel

Spec == Init /\ [][Next]_vars

(***************************************************************************)
(* Batching only: the head of translate_subtitles on larger documents.     *)
(***************************************************************************)
PlanBatchSizeArgs == BatchSizeArgs \cup {Some(DefaultBatchSize)}

InitPlan ==
    /\ subtitle_data \in {Doc(n) : n \in 0..MaxPlanLines}
    /\ arg_batch_size \in PlanBatchSizeArgs
    /\ arg_concurrency \in ConcurrencyArgs
    /\ arg_request_delay \in RequestDelayArgs
    /\ pc = "start"
    /\ batches = <<>>
    /\ group = 0
    /\ handles = <<>>
    /\ task = <<>>
    /\ resp = <<>>
    /\ calls = <<>>
    /\ map_lock = None
    /\ translation_map = <<>>
    /\ completed_batches = 0
    /\ events = <<>>
    /\ result = [tag |-> "Pending"]
    /\ op = "translate_subtitles"
    /\ input = <<>>
    /\ output = <<>>

SpecPlan == InitPlan /\ [][PlanNext]_vars

(***************************************************************************)
(* Properties.                                                             *)
(***************************************************************************)
Dispatched(b) == task[b] # "none"
InFlight == {b \in DOMAIN task : task[b] = "calling"}
Running == {b \in DOMAIN task : Dispatched(b) /\ ~Resolved(b)}

\* C1: a batch task of a wave is dispatched only when every batch task of
\* every earlier wave has resolved (succeeded or failed), whatever the
\* interleaving of the tasks inside a wave.
C1_WaveBarrier ==
    \A a \in DOMAIN task : \A b \in DOMAIN task :
        (WaveOf(a) < WaveOf(b) /\ Dispatched(b)) => Resolved(a)

C1_Witness ==
    /\ concurrency = 2
    /\ total_batches = 3
    /\ task[2] = "calling"
    /\ task[0] = "ok" /\ task[1] = "ok"
    /\ events[1].current_batch = 1 /\ Len(resp[1]) = 2

\* C2: concurrency is clamped to c' = min(max(concurrency, 1), 10), absent
\* = 1; the batches dispatched in a wave are the next consecutive ones, at
\* most c' of them, exactly c' in every wave but the last; never more than
\* c' LLM calls (or batch tasks) are in flight.
C2_ConcurrencyClamp ==
    /\ concurrency = (IF arg_concurrency = None THEN 1
                      ELSE IF arg_concurrency[1] < 1 THEN 1
                      ELSE IF arg_concurrency[1] > 10 THEN 10
                      ELSE arg_concurrency[1])
    /\ Len(handles) <= concurrency
    /\ \A i \in 1..Len(handles) : handles[i] = group * concurrency + (i - 1)
    /\ pc \in {"join", "sleep"} =>
          Len(handles) = (IF (group + 1) * concurrency <= total_batches
                          THEN concurrency
                          ELSE total_batches - group * concurrency)
    /\ pc \in {"join", "sleep"} => Len(handles) >= 1
    /\ \A b \in DOMAIN task : Dispatched(b) => b < (group + 1) * concurrency
    /\ Cardinality(InFlight) <= concurrency
    /\ Cardinality(Running) <= concurrency

C2_Witness ==
    /\ arg_concurrency = Some(2)
    /\ total_batches = 3
    /\ InFlight = {0, 1}
    /\ pc = "join"

\* C3: when a batch task of a wave fails, an error notification for that
\* batch is emitted, the run returns only after every task of that wave has
\* resolved, what it returns is an error value naming a failed batch, no
\* batch of a later wave is ever dispatched and no document is returned.
C3_FailureAborts ==
    /\ \A b \in DOMAIN task :
          task[b] = "err" =>
             /\ Cardinality({i \in 1..Len(events) : events[i] = ErrorEvent(b)}) = 1
             /\ \A c \in DOMAIN task : WaveOf(c) > WaveOf(b) => ~Dispatched(c)
             /\ result.tag # "Ok"
             /\ pc \in {"spawn", "join", "returned", "cancelled"}
             /\ pc = "returned" =>
                   /\ result.tag = "Err"
                   /\ task[result.batch - 1] = "err"
                   /\ \A c \in DOMAIN task : WaveOf(c) = WaveOf(b) => Resolved(c)
    /\ (pc = "returned" /\ result.tag = "Err" /\ ~IsEmptyInput) =>
          \E b \in DOMAIN task : task[b] = "err"

C3_Witness ==
    /\ pc = "returned"
    /\ result.tag = "Err"
    /\ concurrency = 2
    /\ total_batches = 3
    /\ task[0] = "ok" /\ task[1] = "err" /\ task[2] = "none"
    /\ DOMAIN translation_map # {}

\* C4: a document without dialog lines is rejected with an error before any
\* batch is built or dispatched: no call to the LLM and no progress or error
\* event occurs in that run.
C4_EmptyRejected ==
    total_lines = 0 =>
        /\ pc \in {"start", "returned"}
        /\ pc = "returned" => result = [tag |-> "Err", msg |-> "No dialog lines to translate"]
        /\ pc = "start" => result.tag = "Pending"
        /\ batches = <<>>
        /\ \A b \in DOMAIN calls : calls[b] = 0
        /\ \A b \in DOMAIN task : ~Dispatched(b)
        /\ events = <<>>
        /\ DOMAIN translation_map = {}

C4_Witness ==
    /\ total_lines = 0
    /\ pc = "returned"
    /\ result.tag = "Err"

\* C5: for n >= 1 lines and batch_size b >= 1 the batches are ceil(n/b)
\* contiguous runs of the lines in input order, each of exactly b lines except
\* possibly the last; batch i carries ordinal i, every line is in exactly one
\* batch and each entry's id is that line's index (45 lines, b = 20: 20, 20, 5).
C5_BatchPartition ==
    (pc # "start" /\ total_lines >= 1 /\ batch_size >= 1) =>
        LET n == total_lines
            b == batch_size
            lines == subtitle_data.lines
        IN /\ total_batches = (n + b - 1) \div b
           /\ \A i \in 1..total_batches :
                 /\ batches[i].idx = i - 1
                 /\ Len(batches[i].lines) = (IF i < total_batches THEN b ELSE n - b * (total_batches - 1))
                 /\ Len(batches[i].lines) \in 1..b
                 /\ \A j \in 1..Len(batches[i].lines) :
                       /\ batches[i].lines[j].id = lines[(i - 1) * b + j].index
                       /\ batches[i].lines[j].text = lines[(i - 1) * b + j].text
           /\ \A k \in 1..n :
                 Cardinality({<<i, j>> \in (1..total_batches) \X (1..b) :
                                 /\ j <= Len(batches[i].lines)
                                 /\ batches[i].lines[j].id = lines[k].index}) = 1
           /\ (n = 45 /\ b = 20) =>
                 [i \in 1..total_batches |-> Len(batches[i].lines)] = <<20, 20, 5>>

C5_Witness ==
    /\ pc = "spawn"
    /\ total_lines = 45
    /\ batch_size = 20
    /\ total_batches = 3
    /\ Len(batches[3].lines) = 5
    /\ batches[3].lines[5].id = 44

LineIndices == {subtitle_data.lines[k].index : k \in 1..total_lines}

\* the texts that the responses received so far give for id
ReturnedTexts(id) ==
    UNION {{resp[b][i].text : i \in {j \in 1..Len(resp[b]) : resp[b][j].id = id}} :
              b \in {c \in DOMAIN resp : task[c] = "ok"}}

\* C6: an id returned in the response to batch B that B did not submit is
\* ignored: every key of the TranslationMap was submitted by the batch whose
\* response set it, the keys are line indices of the document, and every
\* progress event has lines_translated <= total_lines.
C6_ForeignIdsIgnored ==
    /\ \A k \in DOMAIN translation_map :
          \E b \in DOMAIN task :
              /\ k \in SubmittedIds(b)
              /\ translation_map[k] = TrText(b, k)
    /\ DOMAIN translation_map \subseteq LineIndices
    /\ \A i \in 1..Len(events) :
          events[i].kind = "translation-progress" =>
              events[i].lines_translated <= events[i].total_lines

\* C7: when every batch call succeeds, the returned document is the input
\* document except that a line whose index was returned in a response carries
\* a translation returned for that index; a line whose index no response
\* returned keeps its text, and that raises no error.  format, header,
\* source_path, line order, line_count and every other field of every line
\* are unchanged.
C7_OnlyTextReplaced ==
    result.tag = "Ok" =>
        LET in == subtitle_data
            out == result.doc
        IN /\ \A b \in DOMAIN task : task[b] = "ok"
           /\ out.format = in.format
           /\ out.ass_header = in.ass_header
           /\ out.source_path = in.source_path
           /\ out.line_count = in.line_count
           /\ Len(out.lines) = Len(in.lines)
           /\ \A k \in 1..Len(in.lines) :
                 /\ out.lines[k].index = in.lines[k].index
                 /\ out.lines[k].start = in.lines[k].start
                 /\ out.lines[k].end = in.lines[k].end
                 /\ out.lines[k].style = in.lines[k].style
                 /\ out.lines[k].name = in.lines[k].name
                 /\ out.lines[k].original_with_formatting = in.lines[k].original_with_formatting
                 /\ IF ReturnedTexts(in.lines[k].index) = {}
                    THEN out.lines[k].text = in.lines[k].text
                    ELSE out.lines[k].text \in ReturnedTexts(in.lines[k].index)

C7_Witness ==
    /\ result.tag = "Ok"
    /\ total_batches = 1
    /\ total_lines = 3
    /\ resp[0] = <<[id |-> 0, text |-> TrText(0, 0)], [id |-> 2, text |-> TrText(0, 2)]>>
    /\ result.doc.lines[1].text = TrText(0, 0)
    /\ result.doc.lines[2].text = OrigText(1)
    /\ result.doc.lines[3].text = TrText(0, 2)

\* the TranslationMap when the responses are merged in batch order
RECURSIVE MergedInBatchOrder(_)
MergedInBatchOrder(n) ==
    IF n = 0 THEN <<>>
    ELSE InsertAll(MergedInBatchOrder(n - 1), resp[n - 1])

\* C8: for a fixed document and a fixed response per batch the returned
\* document does not depend on the order in which the tasks of a wave
\* complete: it is the document that completion in batch order yields.
C8_OrderIndependent ==
    result.tag = "Ok" =>
        result.doc.lines =
            ApplyTranslations(subtitle_data.lines, MergedInBatchOrder(total_batches))

\* C9: once the caller has dropped the future, no batch task merges into the
\* TranslationMap, bumps the completed counter or emits an event, and no
\* later wave starts.
C9_CancelStopsTasks ==
    [][pc = "cancelled" =>
          /\ translation_map' = translation_map
          /\ completed_batches' = completed_batches
          /\ events' = events
          /\ calls' = calls]_vars

RECURSIVE SumCalls(_)
SumCalls(n) == IF n = 0 THEN 0 ELSE SumCalls(n - 1) + calls[n - 1]

\* C10: no retry: a batch is sent to the LLM at most once, exactly once in a
\* run that returns a document, and not again after it failed; the calls of a
\* run never outnumber the batches; one line with batch_size 20 and
\* concurrency 5 is translated with exactly one call in exactly one wave.
C10_NoRetry ==
    /\ \A b \in DOMAIN calls :
          /\ calls[b] <= 1
          /\ calls[b] = (IF Dispatched(b) THEN 1 ELSE 0)
    /\ SumCalls(total_batches) <= total_batches
    /\ result.tag = "Ok" => \A b \in DOMAIN calls : calls[b] = 1
    /\ (result.tag = "Ok" /\ total_lines = 1 /\ batch_size = 20 /\ concurrency = 5) =>
          /\ total_batches = 1
          /\ SumCalls(total_batches) = 1
          /\ group = 0
          /\ handles = <<0>>

C10_Witness ==
    /\ result.tag = "Ok"
    /\ total_lines = 1
    /\ batch_size = 20
    /\ arg_concurrency = Some(5)
    /\ calls = [b \in {0} |-> 1]

(***************************************************************************)
(* Strings.  A Rust &str is a TLA+ string; a char is a string of length 1. *)
(* The characters outside ASCII that the source names are written with     *)
(* ASCII stand-ins of one character each: "@" for the music notes          *)
(* (U+266A, U+266B, U+2669, U+266C), and "(laugh)" for the kanji example   *)
(* of the prompt's rule 7.                                                 *)
(***************************************************************************)
CharAt(s, i) == SubSeq(s, i, i)

StartsWith(s, p) == Len(p) <= Len(s) /\ SubSeq(s, 1, Len(p)) = p

EndsWith(s, p) == Len(p) <= Len(s) /\ SubSeq(s, Len(s) - Len(p) + 1, Len(s)) = p

Contains(s, p) == \E i \in 1..(Len(s) - Len(p) + 1) : SubSeq(s, i, i + Len(p) - 1) = p

\* the least element of a non-empty set of numbers
MinOf(S) == CHOOSE i \in S : \A j \in S : i <= j

\* str::find(pat): the first position of pat (from 1), 0 when there is none
Find(s, p) ==
    LET hits == {i \in 1..(Len(s) - Len(p) + 1) : SubSeq(s, i, i + Len(p) - 1) = p}
    IN IF hits = {} THEN 0 ELSE MinOf(hits)

Whitespace == {" ", "\t", "\n", "\r", "\f"}

RECURSIVE TrimStart(_)
TrimStart(s) ==
    IF Len(s) > 0 /\ CharAt(s, 1) \in Whitespace THEN TrimStart(SubSeq(s, 2, Len(s))) ELSE s

RECURSIVE TrimEnd(_)
TrimEnd(s) ==
    IF Len(s) > 0 /\ CharAt(s, Len(s)) \in Whitespace
    THEN TrimEnd(SubSeq(s, 1, Len(s) - 1)) ELSE s

\* str::trim
Trim(s) == TrimEnd(TrimStart(s))

\* str::trim_end_matches(c)
RECURSIVE TrimEndMatches(_, _)
TrimEndMatches(s, c) ==
    IF Len(s) > 0 /\ CharAt(s, Len(s)) = c
    THEN TrimEndMatches(SubSeq(s, 1, Len(s) - 1), c) ELSE s

(***************************************************************************)
(* build_translation_prompt (lines 820-858).                               *)
(***************************************************************************)
StyleTags == {"natural", "literal", "localized", "formal", "casual", "honorifics"}

\* the fallback arm giving the clause of "natural"
StyleInstructionNatural(style) ==
    "Translate naturally, prioritizing how native speakers actually talk. Adapt idioms, jokes, and cultural references to feel native in the target language while preserving the original meaning and tone."

\* lines 826-834
StyleInstruction(style) ==
    CASE style = "natural" ->
           "Translate naturally, prioritizing how native speakers actually talk. Adapt idioms, jokes, and cultural references to feel native in the target language while preserving the original meaning and tone."
      [] style = "literal" ->
           "Translate as literally as possible while still being grammatically correct. Preserve the original sentence structure and word choices where feasible."
      [] style = "localized" ->
           "Fully localize the content. Adapt cultural references, names, jokes, and idioms to equivalents that work in the target culture. The goal is for the translation to feel like it was originally written in the target language."
      [] style = "formal" ->
           "Use formal, polite language appropriate for professional or official contexts. Avoid slang, contractions, and casual expressions."
      [] style = "casual" ->
           "Use casual, conversational language. Feel free to use contractions, common expressions, and a friendly tone."
      [] style = "honorifics" ->
           "Preserve Japanese honorifics (san, kun, chan, sama, sensei, senpai) and cultural terms that don't have direct equivalents. Add brief context in parentheses if needed for clarity."
      [] OTHER ->
           "Translate naturally, balancing accuracy with readability."

\* lines 821-824
BaseInstruction(source_lang, target_lang) ==
    "You are a professional subtitle translator. Translate from "
        \o source_lang \o " to " \o target_lang \o "."

\* lines 841-855: the fixed part of the template
PromptRules ==
    "\n\nCRITICAL RULES:\n"
    \o "1. You will receive a JSON array of subtitle lines with \"id\" and \"text\" fields\n"
    \o "2. Return ONLY a valid JSON object with \"translations\" array containing objects with \"id\" and \"text\"\n"
    \o "3. NEVER change line IDs - they must match exactly for correct subtitle replacement\n"
    \o "4. Keep translations concise - subtitles need to be readable quickly\n"
    \o "5. Preserve line breaks (\\n) where present in the source\n"
    \o "6. Do not add explanations or notes - only the translated text\n"
    \o "7. If a line contains only sound effects like \"(laugh)\" or \"@\", translate the sound description appropriately\n"
    \o "8. If a line is clearly music/lyrics (karaoke tags, music notes, or ending/opening song cues), leave it unchanged\n"
    \o "\nExample input:\n"
    \o "{\"lines\": [{\"id\": 0, \"text\": \"Hello, how are you?\"}, {\"id\": 1, \"text\": \"I'm fine, thanks!\"}]}\n"
    \o "\nExample output:\n"
    \o "{\"translations\": [{\"id\": 0, \"text\": \"Translated line 0\"}, {\"id\": 1, \"text\": \"Translated line 1\"}]}"

\* lines 836-857
build_translation_prompt(style, source_lang, target_lang) ==
    BaseInstruction(source_lang, target_lang)
        \o "\n\nStyle: " \o StyleInstruction(style) \o PromptRules

(***************************************************************************)
(* clean_json_response (lines 1020-1047).                                  *)
(***************************************************************************)
\* lines 1027-1039: the position of the brace that brings depth back to 0,
\* scanning from position i with the depth so far; 0 when the text ends first
\* (end_pos is left at start)
RECURSIVE ScanEnd(_, _, _)
ScanEnd(s, i, depth) ==
    IF i > Len(s) THEN 0
    ELSE IF CharAt(s, i) = "{" THEN ScanEnd(s, i + 1, depth + 1)
    ELSE IF CharAt(s, i) = "}"
         THEN IF depth - 1 = 0 THEN i ELSE ScanEnd(s, i + 1, depth - 1)
    ELSE ScanEnd(s, i + 1, depth)

clean_json_response(raw) ==
    LET content == Trim(raw)
        start == Find(content, "{")
        end == IF start = 0 THEN 0 ELSE ScanEnd(content, start, 0)
    IN IF start # 0 /\ end # 0 THEN SubSeq(content, start, end) ELSE content

(***************************************************************************)
(* call_llm_api (lines 861-1018).                                          *)
(***************************************************************************)
Providers == {"openai", "openrouter", "gemini", "ollama", "lmstudio", "anthropic"}

Endpoints ==
    {"https://api.openai.com/v1",
     "https://api.openai.com/v1/",
     "https://openrouter.ai/api/v1/chat/completions",
     "https://generativelanguage.googleapis.com/v1beta/openai/",
     "https://generativelanguage.googleapis.com/v1beta/models/gemini-pro",
     "http://localhost:11434/api/chat",
     "http://localhost:1234/v1/chat/completions/"}

LLMConfig(provider, endpoint) ==
    [provider |-> provider,
     api_key |-> "sk-key",
     endpoint |-> endpoint,
     model |-> "model-1",
     system_prompt |-> "natural"]

\* line 871: json!({"lines": lines}) of the batch
UserContent == "{\"lines\":[{\"id\":0,\"text\":\"src0\"}]}"

\* what the three extraction paths may find in a reply
ViaChoices == "{\"translations\":[{\"id\":0,\"text\":\"via choices\"}]}"
ViaCandidates == "Sure!\n{\"translations\":[{\"id\":0,\"text\":\"via candidates\"}]}\nDone."
ViaMessage == "Here you go: {\"translations\":[{\"id\":0,\"text\":\"via message\"}]}"

\* the strings serde_json accepts as a TranslationResponse, among those above
TranslationJson ==
    {"{\"translations\":[{\"id\":0,\"text\":\"via choices\"}]}",
     "{\"translations\":[{\"id\":0,\"text\":\"via candidates\"}]}",
     "{\"translations\":[{\"id\":0,\"text\":\"via message\"}]}"}

\* the replies of the server: transport outcome, status, and the JSON body
\* as the three string values the code looks up (None: not a string there)
Replies ==
    {[net |-> "ok", status |-> 200, choices |-> Some(ViaChoices),
      candidates |-> Some(ViaCandidates), message |-> Some(ViaMessage)],
     [net |-> "ok", status |-> 200, choices |-> Some(ViaChoices),
      candidates |-> None, message |-> None],
     [net |-> "ok", status |-> 200, choices |-> None,
      candidates |-> Some(ViaCandidates), message |-> None],
     [net |-> "ok", status |-> 200, choices |-> None,
      candidates |-> None, message |-> Some(ViaMessage)],
     [net |-> "ok", status |-> 200, choices |-> Some("no json here"),
      candidates |-> Some("no json here"), message |-> Some("no json here")],
     [net |-> "ok", status |-> 500, choices |-> None,
      candidates |-> None, message |-> None],
     [net |-> "failed", status |-> 0, choices |-> None,
      candidates |-> None, message |-> None]}

\* lines 876-877
is_gemini_openai_compat(config) ==
    config.provider = "gemini" /\ Contains(config.endpoint, "/openai")

ChatCompletionsBody(config, system_prompt) ==
    [model |-> config.model,
     messages |-> <<[role |-> "system", content |-> system_prompt],
                    [role |-> "user", content |-> UserContent]>>,
     temperature |-> "0.3",
     response_format |-> [type |-> "json_object"]]

GeminiNativeBody(config, system_prompt) ==
    [contents |-> <<[parts |-> <<[text |-> system_prompt
                                          \o "\n\nTranslate the following:\n"
                                          \o UserContent]>>]>>,
     generationConfig |-> [temperature |-> "0.3",
                           responseMimeType |-> "application/json"]]

OllamaBody(config, system_prompt) ==
    [model |-> config.model,
     messages |-> <<[role |-> "system", content |-> system_prompt],
                    [role |-> "user", content |-> UserContent]>>,
     stream |-> FALSE,
     format |-> "json",
     options |-> [temperature |-> "0.3"]]

\* lines 880-920.  The guard of the first arm ("openai" | "openrouter" | _
\* if is_gemini_openai_compat) belongs to all three alternatives.
request_body(config, system_prompt) ==
    IF is_gemini_openai_compat(config)
    THEN [tag |-> "Ok", body |-> ChatCompletionsBody(config, system_prompt)]
    ELSE IF config.provider = "gemini"
    THEN [tag |-> "Ok", body |-> GeminiNativeBody(config, system_prompt)]
    ELSE IF config.provider \in {"ollama", "lmstudio"}
    THEN [tag |-> "Ok", body |-> OllamaBody(config, system_prompt)]
    ELSE [tag |-> "Err", msg |-> "Unsupported provider: " \o config.provider]

\* the URL of the compatible endpoint built without trimming the slash
endpoint_url_untrimmed(config) ==
    IF is_gemini_openai_compat(config)
    THEN config.endpoint \o "/chat/completions"
    ELSE IF config.provider = "gemini"
    THEN config.endpoint \o ":generateContent?key=" \o config.api_key
    ELSE LET base == TrimEndMatches(config.endpoint, "/")
         IN IF EndsWith(base, "/chat/completions") THEN base
            ELSE base \o "/chat/completions"

\* lines 923-938
endpoint_url(config) ==
    IF is_gemini_openai_compat(config)
    THEN TrimEndMatches(config.endpoint, "/") \o "/chat/completions"
    ELSE IF config.provider = "gemini"
    THEN config.endpoint \o ":generateContent?key=" \o config.api_key
    ELSE LET base == TrimEndMatches(config.endpoint, "/")
         IN IF EndsWith(base, "/chat/completions") THEN base
            ELSE base \o "/chat/completions"

\* lines 942-959: the headers added to the request
auth_headers(config) ==
    IF is_gemini_openai_compat(config)
    THEN {<<"Authorization", "Bearer " \o config.api_key>>}
    ELSE IF config.provider \in {"openai", "openrouter"}
    THEN {<<"Authorization", "Bearer " \o config.api_key>>}
         \cup (IF config.provider = "openrouter"
               THEN {<<"HTTP-Referer", "https://animesubs.app">>} ELSE {})
    ELSE {}

\* lines 983-1003: where the content is read, and what is found there
extract_content(config, reply) ==
    IF is_gemini_openai_compat(config) \/ config.provider \in {"openai", "openrouter"}
    THEN IF reply.choices = None
         THEN [tag |-> "Err", msg |-> "Missing content in OpenAI response"]
         ELSE [tag |-> "Ok", path |-> "choices[0].message.content",
               content |-> reply.choices[1]]
    ELSE IF config.provider = "gemini"
    THEN IF reply.candidates = None
         THEN [tag |-> "Err", msg |-> "Missing content in Gemini response"]
         ELSE [tag |-> "Ok", path |-> "candidates[0].content.parts[0].text",
               content |-> reply.candidates[1]]
    ELSE IF config.provider \in {"ollama", "lmstudio"}
    THEN IF reply.message = None
         THEN [tag |-> "Err", msg |-> "Missing content in Ollama response"]
         ELSE [tag |-> "Ok", path |-> "message.content",
               content |-> reply.message[1]]
    ELSE [tag |-> "Err", msg |-> "Unsupported provider"]

\* the engine's variables while a single function is studied
EngineIdle ==
    /\ subtitle_data = Doc(0)
    /\ arg_batch_size = None
    /\ arg_concurrency = None
    /\ arg_request_delay = None
    /\ pc = "start"
    /\ batches = <<>>
    /\ group = 0
    /\ handles = <<>>
    /\ task = <<>>
    /\ resp = <<>>
    /\ calls = <<>>
    /\ map_lock = None
    /\ translation_map = <<>>
    /\ completed_batches = 0
    /\ events = <<>>
    /\ result = [tag |-> "Pending"]

engine == <<args, pc, batches, group, handles, task, resp, calls, map_lock,
            translation_map, completed_batches, events, result>>

InitLlm ==
    /\ EngineIdle
    /\ op = "call_llm_api"
    /\ input \in {[config |-> LLMConfig(p, e), reply |-> r, source_lang |-> "ja",
                   target_lang |-> "en"] :
                     p \in Providers, e \in Endpoints, r \in Replies}
    /\ output = [tag |-> "Pending", http_requests |-> 0]

SystemPrompt == build_translation_prompt(input.config.system_prompt,
                                         input.source_lang, input.target_lang)

\* line 919: the provider is not supported, no request is made
LlmReject ==
    /\ op = "call_llm_api"
    /\ request_body(input.config, SystemPrompt).tag = "Err"
    /\ op' = "call_llm_api:returned"
    /\ output' = [tag |-> "Err",
                  msg |-> request_body(input.config, SystemPrompt).msg,
                  http_requests |-> 0]
    /\ UNCHANGED <<engine, input>>

\* lines 940-969: the request is built and sent
LlmSend ==
    /\ op = "call_llm_api"
    /\ request_body(input.config, SystemPrompt).tag = "Ok"
    /\ op' = "call_llm_api:sent"
    /\ output' = [tag |-> "Sent",
                  url |-> endpoint_url(input.config),
                  body |-> request_body(input.config, SystemPrompt).body,
                  headers |-> auth_headers(input.config),
                  http_requests |-> 1]
    /\ UNCHANGED <<engine, input>>

\* lines 966-975: the transport failed or the status is not a success
LlmHttpError ==
    /\ op = "call_llm_api:sent"
    /\ input.reply.net # "ok" \/ input.reply.status \notin 200..299
    /\ op' = "call_llm_api:returned"
    /\ output' = [tag |-> "Err",
                  msg |-> IF input.reply.net # "ok" THEN "Failed to call LLM API"
                          ELSE "LLM API error",
                  url |-> output.url, body |-> output.body,
                  headers |-> output.headers, http_requests |-> 1]
    /\ UNCHANGED <<engine, input>>

\* lines 977-1018: the body is read, the content extracted, cleaned, parsed
LlmReceive ==
    /\ op = "call_llm_api:sent"
    /\ input.reply.net = "ok" /\ input.reply.status \in 200..299
    /\ op' = "call_llm_api:returned"
    /\ LET x == extract_content(input.config, input.reply)
       IN output' =
            IF x.tag = "Err"
            THEN [tag |-> "Err", msg |-> x.msg,
                  url |-> output.url, body |-> output.body,
                  headers |-> output.headers, http_requests |-> 1]
            ELSE IF clean_json_response(x.content) \in TranslationJson
            THEN [tag |-> "Ok", translations |-> clean_json_response(x.content),
                  path |-> x.path,
                  url |-> output.url, body |-> output.body,
                  headers |-> output.headers, http_requests |-> 1]
            ELSE [tag |-> "Err", msg |-> "Failed to parse translation JSON",
                  path |-> x.path,
                  url |-> output.url, body |-> output.body,
                  headers |-> output.headers, http_requests |-> 1]
    /\ UNCHANGED <<engine, input>>

NextLlm == LlmReject \/ LlmSend \/ LlmHttpError \/ LlmReceive

SpecLlm == InitLlm /\ [][NextLlm]_vars

LlmLeftStart == op \in {"call_llm_api:sent", "call_llm_api:returned"}

\* C11: for provider openai or openrouter a request is sent: chat-completions
\* payload, URL = base URL with /chat/completions appended unless already
\* there, Authorization: Bearer <key> (openrouter also HTTP-Referer), reply
\* read from choices[0].message.content; only a provider outside {openai,
\* openrouter, gemini, ollama, lmstudio} is rejected as unsupported, before
\* any HTTP request.
C11_OpenAiRequest ==
    LlmLeftStart =>
        LET config == input.config
            base == TrimEndMatches(config.endpoint, "/")
        IN /\ config.provider \in {"openai", "openrouter"} =>
                 /\ output.http_requests = 1
                 /\ output.body = ChatCompletionsBody(config, SystemPrompt)
                 /\ output.url = (IF EndsWith(base, "/chat/completions") THEN base
                                  ELSE base \o "/chat/completions")
                 /\ <<"Authorization", "Bearer " \o config.api_key>> \in output.headers
                 /\ config.provider = "openrouter" =>
                       \E h \in output.headers : h[1] = "HTTP-Referer"
                 /\ output.tag = "Ok" => output.path = "choices[0].message.content"
           /\ (output.tag = "Err" /\ output.http_requests = 0) =>
                 config.provider \notin {"openai", "openrouter", "gemini", "ollama", "lmstudio"}

\* C12: for provider gemini the endpoint selects the variant.  Endpoint
\* containing /openai: URL = endpoint without trailing slash + /chat/completions,
\* chat-completions payload, Authorization: Bearer <key>, reply read from
\* choices[0].message.content.  Otherwise: URL = <endpoint>:generateContent?key=<key>,
\* native payload, no Authorization header, reply read from
\* candidates[0].content.parts[0].text.  The four always belong to one variant.
C12_GeminiVariants ==
    (LlmLeftStart /\ input.config.provider = "gemini") =>
        LET config == input.config
        IN /\ output.http_requests = 1
           /\ IF Contains(config.endpoint, "/openai")
              THEN /\ ~EndsWith(output.url, "//chat/completions")
                   /\ EndsWith(output.url, "/chat/completions")
                   /\ \E k \in 0..Len(config.endpoint) :
                         /\ SubSeq(config.endpoint, 1, Len(config.endpoint) - k)
                               \o "/chat/completions" = output.url
                         /\ \A i \in (Len(config.endpoint) - k + 1)..Len(config.endpoint) :
                               CharAt(config.endpoint, i) = "/"
                   /\ config.endpoint = "https://generativelanguage.googleapis.com/v1beta/openai/" =>
                         output.url = "https://generativelanguage.googleapis.com/v1beta/openai/chat/completions"
                   /\ output.body = ChatCompletionsBody(config, SystemPrompt)
                   /\ output.headers = {<<"Authorization", "Bearer " \o config.api_key>>}
                   /\ output.tag = "Ok" =>
                         /\ output.path = "choices[0].message.content"
                         /\ output.translations = ViaChoices
                   /\ (op = "call_llm_api:returned" /\ input.reply.net = "ok"
                          /\ input.reply.status = 200 /\ input.reply.choices = None) =>
                         output.tag = "Err"
              ELSE /\ output.url = config.endpoint \o ":generateContent?key=" \o config.api_key
                   /\ output.body = GeminiNativeBody(config, SystemPrompt)
                   /\ \A h \in output.headers : h[1] # "Authorization"
                   /\ output.tag = "Ok" =>
                         /\ output.path = "candidates[0].content.parts[0].text"
                         /\ Contains(output.translations, "via candidates")
                   /\ (op = "call_llm_api:returned" /\ input.reply.net = "ok"
                          /\ input.reply.status = 200 /\ input.reply.candidates = None) =>
                         output.tag = "Err"

C12_Witness ==
    /\ op = "call_llm_api:returned"
    /\ input.config.provider = "gemini"
    /\ input.config.endpoint = "https://generativelanguage.googleapis.com/v1beta/openai/"
    /\ input.reply.candidates # None
    /\ output.tag = "Ok"
    /\ output.path = "choices[0].message.content"
    /\ output.url = "https://generativelanguage.googleapis.com/v1beta/openai/chat/completions"

\* C13: for provider ollama or lmstudio the URL requested is exactly the
\* configured endpoint, no authentication header is sent, the payload has
\* stream = false, format = json, options.temperature = 0.3, and the reply is
\* read from message.content.
C13_OllamaVerbatim ==
    (LlmLeftStart /\ input.config.provider \in {"ollama", "lmstudio"}) =>
        /\ output.http_requests = 1
        /\ output.url = input.config.endpoint
        /\ output.headers = {}
        /\ output.body.stream = FALSE
        /\ output.body.format = "json"
        /\ output.body.options.temperature = "0.3"
        /\ output.tag = "Ok" => output.path = "message.content"

(***************************************************************************)
(* build_translation_prompt on its own.                                    *)
(***************************************************************************)
PromptStyles == StyleTags \cup {"", "Natural", "poetic", "default", "Translate like a pirate."}
PromptLangs == {"ja", "en", "pt-BR", "auto"}

InitPrompt ==
    /\ EngineIdle
    /\ op = "build_translation_prompt"
    /\ input \in [style : PromptStyles, source_lang : PromptLangs, target_lang : PromptLangs]
    /\ output = ""

PromptBuild ==
    /\ op = "build_translation_prompt"
    /\ op' = "build_translation_prompt:returned"
    /\ output' = build_translation_prompt(input.style, input.source_lang, input.target_lang)
    /\ UNCHANGED <<engine, input>>

SpecPrompt == InitPrompt /\ [][PromptBuild]_vars

\* C14 (as claimed): the system prompt built for a style tag outside the six
\* recognized ones is identical to the one built for the tag natural.
C14_UnrecognizedIsNatural ==
    (op = "build_translation_prompt:returned" /\ input.style \notin StyleTags) =>
        output = build_translation_prompt("natural", input.source_lang, input.target_lang)

\* C14 (amended): every style tag outside the six recognized ones yields one
\* and the same prompt, whose style clause is the fallback "Translate
\* naturally, balancing accuracy with readability."; it is the prompt of no
\* recognized tag, natural included.
C14_UnrecognizedIsFallback ==
    (op = "build_translation_prompt:returned" /\ input.style \notin StyleTags) =>
        /\ output = BaseInstruction(input.source_lang, input.target_lang)
                       \o "\n\nStyle: Translate naturally, balancing accuracy with readability."
                       \o PromptRules
        /\ \A t \in StyleTags :
              output # build_translation_prompt(t, input.source_lang, input.target_lang)

C14_Witness ==
    /\ op = "build_translation_prompt:returned"
    /\ input.style = "poetic"
    /\ input.source_lang = "ja"
    /\ input.target_lang = "pt-BR"
    /\ Contains(output, "Translate from ja to pt-BR.")
    /\ Contains(output, "balancing accuracy with readability")

(***************************************************************************)
(* clean_json_response on its own: a JSON object inside other text.  The   *)
(* code fence is written ~~~.                                              *)
(***************************************************************************)
Preambles == {"", "  \n", "Here is the translation:\n", "~~~json\n", "Sure! "}
Postambles == {"", "\n~~~", "\n\nHope this helps!", " :}", " {note}", "\n"}

\* well-formed JSON objects of the response shape
JsonObjects ==
    {"{\"translations\":[]}",
     "{\"translations\":[{\"id\":0,\"text\":\"hi\"}]}",
     "{\"translations\":[{\"id\":0,\"text\":\"hi\"},{\"id\":1,\"text\":\"yo\"}]}",
     "{\"translations\":[{\"id\":0,\"text\":\"{\\\\i1}hi\"}]}",
     "{\"translations\":[{\"id\":0,\"text\":\"a}b\"}]}",
     "{\"translations\":[{\"id\":0,\"text\":\"a{b\"}]}"}

InitClean ==
    /\ EngineIdle
    /\ op = "clean_json_response"
    /\ input \in [pre : Preambles, object : JsonObjects, post : Postambles]
    /\ output = ""

CleanApply ==
    /\ op = "clean_json_response"
    /\ op' = "clean_json_response:returned"
    /\ output' = clean_json_response(input.pre \o input.object \o input.post)
    /\ UNCHANGED <<engine, input>>

SpecClean == InitClean /\ [][CleanApply]_vars

\* C15: for every well-formed JSON object O, also one whose string values
\* contain braces, and text around it (a preamble without a brace, trailing
\* prose, code fences), clean_json_response(pre + O + post) = O.
C15_CleanYieldsObject ==
    op = "clean_json_response:returned" => output = input.object

(***************************************************************************)
(* More of str, as the parsers and reconstructors use it.                  *)
(***************************************************************************)
\* str::split(pat): the pieces between the occurrences of pat
RECURSIVE Split(_, _)
Split(s, sep) ==
    LET i == Find(s, sep)
    IN IF i = 0 THEN <<s>>
       ELSE <<SubSeq(s, 1, i - 1)>> \o Split(SubSeq(s, i + Len(sep), Len(s)), sep)

\* str::splitn(n, pat), n >= 1: at most n pieces, the last one is the rest
RECURSIVE SplitN(_, _, _)
SplitN(s, n, sep) ==
    LET i == Find(s, sep)
    IN IF n <= 1 \/ i = 0 THEN <<s>>
       ELSE <<SubSeq(s, 1, i - 1)>> \o SplitN(SubSeq(s, i + Len(sep), Len(s)), n - 1, sep)

\* [String]::join(sep)
RECURSIVE Join(_, _)
Join(parts, sep) ==
    IF Len(parts) = 0 THEN ""
    ELSE IF Len(parts) = 1 THEN parts[1]
    ELSE parts[1] \o sep \o Join(Tail(parts), sep)

\* one trailing carriage return of a line that a line feed ended
StripCr(s) == IF EndsWith(s, "\r") THEN SubSeq(s, 1, Len(s) - 1) ELSE s

\* str::lines(): the lines without their terminator (LF or CRLF); the text
\* after the last line feed is a line only if it is not empty
RECURSIVE Lines(_)
Lines(s) ==
    LET i == Find(s, "\n")
    IN IF s = "" THEN <<>>
       ELSE IF i = 0 THEN <<s>>
       ELSE <<StripCr(SubSeq(s, 1, i - 1))>> \o Lines(SubSeq(s, i + 1, Len(s)))

UpperCase == "ABCDEFGHIJKLMNOPQRSTUVWXYZ"
LowerCase == "abcdefghijklmnopqrstuvwxyz"
Digits == "0123456789"

UpperChars == {CharAt(UpperCase, i) : i \in 1..Len(UpperCase)}
LowerChars == {CharAt(LowerCase, i) : i \in 1..Len(LowerCase)}
LowerOf == [c \in UpperChars |-> CharAt(LowerCase, Find(UpperCase, c))]

\* char::is_ascii_alphabetic
is_ascii_alphabetic(c) == c \in UpperChars \/ c \in LowerChars

\* char::to_ascii_lowercase
LowerChar(c) == IF c \in UpperChars THEN LowerOf[c] ELSE c

\* str::to_ascii_lowercase, and str::to_lowercase on ASCII text
RECURSIVE ToLower(_)
ToLower(s) ==
    IF s = "" THEN ""
    ELSE LowerChar(CharAt(s, 1)) \o ToLower(SubSeq(s, 2, Len(s)))

\* str::replace(from, to)
RECURSIVE Replace(_, _, _)
Replace(s, from, to) ==
    LET i == Find(s, from)
    IN IF i = 0 THEN s
       ELSE SubSeq(s, 1, i - 1) \o to \o Replace(SubSeq(s, i + Len(from), Len(s)), from, to)

\* Regex open[^close]*close, replace_all(text, ""): every stretch from an
\* opening character to the first closing character after it is removed; an
\* opening character that nothing closes stays
RECURSIVE RemoveTags(_, _, _)
RemoveTags(s, open, close) ==
    LET i == Find(s, open)
        rest == SubSeq(s, i + 1, Len(s))
        j == Find(rest, close)
    IN IF i = 0 THEN s
       ELSE IF j = 0 THEN s
       ELSE SubSeq(s, 1, i - 1) \o RemoveTags(SubSeq(rest, j + 1, Len(rest)), open, close)

\* str::split_whitespace
RECURSIVE SplitWhitespace(_)
SplitWhitespace(s) ==
    LET t == TrimStart(s)
        ws == {i \in 1..Len(t) : CharAt(t, i) \in Whitespace}
    IN IF t = "" THEN <<>>
       ELSE IF ws = {} THEN <<t>>
       ELSE <<SubSeq(t, 1, MinOf(ws) - 1)>> \o SplitWhitespace(SubSeq(t, MinOf(ws), Len(t)))

\* str::parse::<usize>().is_ok(): an optional plus sign and one digit or more
\* (the texts of the model are far below the overflow of usize)
ParsesAsUsize(s) ==
    LET d == IF StartsWith(s, "+") THEN SubSeq(s, 2, Len(s)) ELSE s
    IN d # "" /\ \A i \in 1..Len(d) : Contains(Digits, CharAt(d, i))

\* str::chars().count(); the texts of the model are ASCII
CharCount(s) == Len(s)

(***************************************************************************)
(* strip_ass_tags and is_music_or_karaoke_line (lines 374-423).            *)
(***************************************************************************)
strip_ass_tags(text) ==
    Replace(Replace(RemoveTags(text, "{", "}"), "\\N", "\n"), "\\n", "\n")

\* the least number of characters of a dialog text that the ASS length rule
\* lets pass (chars().count() < 3 is too short)
MinDialogChars == 3
\* the largest number of characters of a very short text or a short token
VeryShortChars == 3

is_music_or_karaoke_line(original_text, clean_text) ==
    LET lowered == ToLower(clean_text)
        original_lower == ToLower(original_text)
        has_music_notes == Contains(clean_text, "@")
        has_music_words ==
            \/ Contains(lowered, "[music")
            \/ Contains(lowered, "(music")
            \/ Contains(lowered, "bgm")
            \/ Contains(lowered, "instrumental")
            \/ Contains(lowered, "ending theme")
            \/ Contains(lowered, "opening theme")
        has_karaoke_tags == Contains(original_lower, "\\k")
        has_alignment_tag == Contains(original_lower, "\\an")
        trimmed == Trim(clean_text)
        is_very_short == CharCount(trimmed) <= VeryShortChars
        looks_like_romaji ==
            \A i \in 1..Len(trimmed) :
                is_ascii_alphabetic(CharAt(trimmed, i)) \/ CharAt(trimmed, i) \in Whitespace
        tokens == SplitWhitespace(trimmed)
        short_tokens == Cardinality({i \in DOMAIN tokens : CharCount(tokens[i]) <= VeryShortChars})
        mostly_short == Len(tokens) >= 2 /\ short_tokens * 2 >= Len(tokens)
        unique == {tokens[i] : i \in DOMAIN tokens}
        repeating_tokens == Len(tokens) >= 3 /\ Cardinality(unique) * 2 <= Len(tokens)
    IN \/ has_music_notes
       \/ has_music_words
       \/ has_karaoke_tags
       \/ (has_alignment_tag /\ is_very_short /\ looks_like_romaji)
       \/ ((is_very_short \/ mostly_short) /\ looks_like_romaji /\ repeating_tokens)

(***************************************************************************)
(* The parsers (lines 426-697).                                            *)
(***************************************************************************)
\* a line pushed with the next index counted from 1
NewDialogLineFromOne(lines, text, original_with_formatting, start, end, style, name) ==
    [index |-> Len(lines) + 1, text |-> text,
     original_with_formatting |-> original_with_formatting,
     start |-> start, end |-> end, style |-> style, name |-> name]

\* DialogLine { index: lines.len(), ... }
NewDialogLine(lines, text, original_with_formatting, start, end, style, name) ==
    [index |-> Len(lines), text |-> text,
     original_with_formatting |-> original_with_formatting,
     start |-> start, end |-> end, style |-> style, name |-> name]

SubtitleData(format, lines, ass_header) ==
    [format |-> format, line_count |-> Len(lines), lines |-> lines,
     source_path |-> "", ass_header |-> ass_header]

skip_styles ==
    {"op", "ed", "opening", "ending", "karaoke", "romaji", "japanese", "sign",
     "signs", "title", "song", "lyrics", "insert", "credit", "credits"}

\* lines 473-476 and 1268-1270
should_skip_style(style_lower) ==
    \E skip \in skip_styles :
        \/ Contains(style_lower, skip)
        \/ \E w \in DOMAIN SplitWhitespace(style_lower) : SplitWhitespace(style_lower)[w] = skip

\* line 479 and 1272
is_too_short(clean_text) == CharCount(Trim(clean_text)) < MinDialogChars

\* lines 467-486: what the ASS filter lets pass
AssRetains(style, original_text) ==
    LET clean_text == strip_ass_tags(original_text)
    IN /\ Trim(clean_text) # ""
       /\ ~should_skip_style(ToLower(style))
       /\ ~is_too_short(clean_text)
       /\ ~is_music_or_karaoke_line(original_text, clean_text)

\* lines 451-498: one Dialogue line of the [Events] section
AssDialogue(lines, trimmed) ==
    LET parts == SplitN(trimmed, 10, ",")
        style == Trim(parts[4])
        n == Trim(parts[5])
        original_text == Join(SubSeq(parts, 10, Len(parts)), ",")
    IN IF Len(parts) >= 10 /\ AssRetains(style, original_text)
       THEN Append(lines,
                   NewDialogLine(lines, strip_ass_tags(original_text), original_text,
                                 Trim(parts[2]), Trim(parts[3]), Some(style),
                                 IF n = "" THEN None ELSE Some(n)))
       ELSE lines

\* lines 437-499: the loop over content.lines().enumerate(); ls are the
\* lines, k the position (from 1), st the locals
RECURSIVE AssLoop(_, _, _)
AssLoop(ls, k, st) ==
    LET trimmed == Trim(ls[k])
    IN IF k > Len(ls) THEN st
       ELSE IF StartsWith(trimmed, "[Events]")
            THEN AssLoop(ls, k + 1, [st EXCEPT !.in_events = TRUE, !.header_end = k - 1])
       ELSE IF st.in_events /\ StartsWith(trimmed, "[") THEN st
       ELSE IF st.in_events /\ StartsWith(trimmed, "Dialogue:")
            THEN AssLoop(ls, k + 1, [st EXCEPT !.lines = AssDialogue(st.lines, trimmed)])
       ELSE AssLoop(ls, k + 1, st)

parse_ass_file(content) ==
    LET ls == Lines(content)
        st == AssLoop(ls, 1, [lines |-> <<>>, in_events |-> FALSE, header_end |-> 0])
        header == Join(SubSeq(ls, 1, Min2(st.header_end + 2, Len(ls))), "\n")
    IN SubtitleData("ass", st.lines, Some(header))

\* lines 531-544, 570-583, 613-627, 646-660, 675-688: the pending cue is
\* pushed unless its text is blank or a music line
PushCue(lines, current_text, start, end) ==
    LET text == Join(current_text, "\n")
    IN IF Len(current_text) > 0 /\ Trim(text) # "" /\ ~is_music_or_karaoke_line(text, text)
       THEN Append(lines, NewDialogLine(lines, text, text, start, end, None, None))
       ELSE lines

\* lines 525-567: the loop of parse_srt_file
RECURSIVE SrtLoop(_, _, _)
SrtLoop(ls, k, st) ==
    LET trimmed == Trim(ls[k])
        parts == Split(trimmed, "-->")
    IN IF k > Len(ls) THEN st
       ELSE IF ParsesAsUsize(trimmed)
            THEN SrtLoop(ls, k + 1,
                         [st EXCEPT !.lines = IF st.current_index
                                              THEN PushCue(st.lines, st.current_text,
                                                           st.current_start, st.current_end)
                                              ELSE st.lines,
                                    !.current_index = TRUE,
                                    !.current_text = <<>>])
       ELSE IF Contains(trimmed, "-->")
            THEN SrtLoop(ls, k + 1, [st EXCEPT !.current_start = Trim(parts[1]),
                                               !.current_end = Trim(parts[2])])
       ELSE IF st.current_index /\ trimmed # ""
            THEN SrtLoop(ls, k + 1,
                         [st EXCEPT !.current_text = Append(@, RemoveTags(trimmed, "<", ">"))])
       ELSE SrtLoop(ls, k + 1, st)

parse_srt_file(content) ==
    LET st == SrtLoop(Lines(content), 1,
                      [lines |-> <<>>, current_index |-> FALSE, current_start |-> "",
                       current_end |-> "", current_text |-> <<>>])
        lines == IF st.current_index
                 THEN PushCue(st.lines, st.current_text, st.current_start, st.current_end)
                 ELSE st.lines
    IN SubtitleData("srt", lines, None)

\* lines 633-638: parts[1].trim().split_whitespace().next().unwrap_or("")
FirstWord(s) == IF SplitWhitespace(s) = <<>> THEN "" ELSE SplitWhitespace(s)[1]

\* lines 602-672: the loop of parse_vtt_file
RECURSIVE VttLoop(_, _, _)
VttLoop(ls, k, st) ==
    LET trimmed == Trim(ls[k])
        parts == Split(trimmed, "-->")
    IN IF k > Len(ls) THEN st
       ELSE IF StartsWith(trimmed, "WEBVTT") \/ StartsWith(trimmed, "NOTE")
            THEN VttLoop(ls, k + 1, st)
       ELSE IF Contains(trimmed, "-->")
            THEN VttLoop(ls, k + 1,
                         [st EXCEPT !.lines = IF st.in_cue
                                              THEN PushCue(st.lines, st.current_text,
                                                           st.current_start, st.current_end)
                                              ELSE st.lines,
                                    !.current_text = IF st.in_cue THEN <<>> ELSE @,
                                    !.current_start = Trim(parts[1]),
                                    !.current_end = FirstWord(parts[2]),
                                    !.in_cue = TRUE])
       ELSE IF trimmed = "" /\ st.in_cue
            THEN VttLoop(ls, k + 1,
                         [st EXCEPT !.lines = PushCue(st.lines, st.current_text,
                                                      st.current_start, st.current_end),
                                    !.current_text = <<>>,
                                    !.in_cue = FALSE])
       ELSE IF st.in_cue /\ trimmed # ""
            THEN VttLoop(ls, k + 1,
                         [st EXCEPT !.current_text = Append(@, RemoveTags(trimmed, "<", ">"))])
       ELSE VttLoop(ls, k + 1, st)

parse_vtt_file(content) ==
    LET st == VttLoop(Lines(content), 1,
                      [lines |-> <<>>, in_cue |-> FALSE, current_start |-> "",
                       current_end |-> "", current_text |-> <<>>])
    IN SubtitleData("vtt", PushCue(st.lines, st.current_text, st.current_start,
                                   st.current_end), None)

(***************************************************************************)
(* The reconstructors (lines 1183-1333).                                   *)
(***************************************************************************)
\* lines 1190-1198: original text (tags stripped, trimmed, lower case) ->
\* translated text; a later line with the same key replaces an earlier one
RECURSIVE ass_translation_map(_, _)
ass_translation_map(translations, m) ==
    IF Len(translations) = 0 THEN m
    ELSE ass_translation_map(
             Tail(translations),
             MapInsert(m,
                       ToLower(Trim(strip_ass_tags(translations[1].original_with_formatting))),
                       translations[1].text))

\* lines 1296-1308: Regex ^(\{[^}]*\}) finds the one override block the text
\* starts with
apply_ass_formatting(original, translated) ==
    LET close == Find(original, "}")
        leading_tags == IF StartsWith(original, "{") /\ close # 0
                        THEN SubSeq(original, 1, close) ELSE ""
    IN leading_tags \o Replace(translated, "\n", "\\N")

\* str::trim_matches(&['[', ']'][..])
RECURSIVE TrimBrackets(_)
TrimBrackets(s) ==
    IF s # "" /\ CharAt(s, 1) \in {"[", "]"} THEN TrimBrackets(SubSeq(s, 2, Len(s)))
    ELSE IF s # "" /\ CharAt(s, Len(s)) \in {"[", "]"}
         THEN TrimBrackets(SubSeq(s, 1, Len(s) - 1))
    ELSE s

\* the pieces of a comma-separated row, each trimmed
TrimmedFields(s) == [i \in DOMAIN Split(s, ",") |-> Trim(Split(s, ",")[i])]

\* lines 1233-1239: fields.iter().position(|f| f.eq_ignore_ascii_case("Encoding"))
EncodingIndex(trimmed) ==
    LET fields == TrimmedFields(SubSeq(trimmed, 8, Len(trimmed)))
        hits == {i \in DOMAIN fields : ToLower(fields[i]) = "encoding"}
    IN IF hits = {} THEN None ELSE Some(MinOf(hits) - 1)

\* lines 1244-1251: the Style row written again with the Encoding column 0
StyleRow(trimmed, idx) ==
    LET values == TrimmedFields(SubSeq(trimmed, 7, Len(trimmed)))
    IN "Style: " \o Join(IF idx < Len(values) THEN [values EXCEPT ![idx + 1] = "0"]
                                               ELSE values, ",")

\* lines 1258-1288: the translated Dialogue line, None when the line is to
\* be passed through
DialogueRow(trimmed, map) ==
    LET parts == SplitN(trimmed, 10, ",")
        original_text == Join(SubSeq(parts, 10, Len(parts)), ",")
        lookup_key == ToLower(Trim(strip_ass_tags(original_text)))
    IN IF /\ Len(parts) >= 10
          /\ AssRetains(Trim(parts[4]), original_text)
          /\ lookup_key \in DOMAIN map
       THEN Some(Join(SubSeq(parts, 1, 9), ",") \o ","
                   \o apply_ass_formatting(original_text, map[lookup_key]))
       ELSE None

\* lines 1209-1225: the section flags after a line that starts with "["
EnterSection(st, section) ==
    [st EXCEPT !.in_styles = (section = "v4+ styles"),
               !.in_events = (section = "events"),
               !.style_encoding_index = IF section = "v4+ styles" THEN None ELSE @]

\* lines 1206-1291: the loop over original_content.lines()
RECURSIVE ReconstructAssLoop(_, _, _, _)
ReconstructAssLoop(ls, k, st, map) ==
    LET line == ls[k]
        trimmed == Trim(line)
        lower == ToLower(trimmed)
        pass == [st EXCEPT !.result = Append(@, line)]
    IN IF k > Len(ls) THEN st
       ELSE IF StartsWith(trimmed, "[")
            THEN ReconstructAssLoop(ls, k + 1,
                     EnterSection(pass, ToLower(TrimBrackets(trimmed))), map)
       ELSE IF st.in_styles /\ StartsWith(lower, "format:")
            THEN ReconstructAssLoop(ls, k + 1,
                     [pass EXCEPT !.style_encoding_index = EncodingIndex(trimmed)], map)
       ELSE IF st.in_styles /\ StartsWith(lower, "style:") /\ st.style_encoding_index # None
            THEN ReconstructAssLoop(ls, k + 1,
                     [st EXCEPT !.result = Append(@, StyleRow(trimmed, st.style_encoding_index[1]))],
                     map)
       ELSE IF st.in_events /\ StartsWith(trimmed, "Dialogue:") /\ DialogueRow(trimmed, map) # None
            THEN ReconstructAssLoop(ls, k + 1,
                     [st EXCEPT !.result = Append(@, DialogueRow(trimmed, map)[1])], map)
       ELSE ReconstructAssLoop(ls, k + 1, pass, map)

reconstruct_ass(original_content, translations) ==
    Join(ReconstructAssLoop(Lines(original_content), 1,
                            [result |-> <<>>, in_events |-> FALSE, in_styles |-> FALSE,
                             style_encoding_index |-> None],
                            ass_translation_map(translations, <<>>)).result,
         "\n")

\* lines 1313-1318
RECURSIVE SrtEntries(_, _)
SrtEntries(translations, idx) ==
    IF idx >= Len(translations) THEN <<>>
    ELSE <<ToString(idx + 1),
           translations[idx + 1].start \o " --> " \o translations[idx + 1].end,
           translations[idx + 1].text,
           "">> \o SrtEntries(translations, idx + 1)

reconstruct_srt(translations) == Join(SrtEntries(translations, 0), "\n")

\* lines 1326-1330
RECURSIVE VttEntries(_)
VttEntries(translations) ==
    IF Len(translations) = 0 THEN <<>>
    ELSE <<translations[1].start \o " --> " \o translations[1].end,
           translations[1].text,
           "">> \o VttEntries(Tail(translations))

reconstruct_vtt(translations) == Join(<<"WEBVTT", "">> \o VttEntries(translations), "\n")

(***************************************************************************)
(* Subtitle files.  A file is a sequence of cues taken from a small pool,  *)
(* written in one of the three formats; the k-th cue starts at second k,   *)
(* so every cue of a file has its own start time.                          *)
(***************************************************************************)
\* largest number of cues of a file
MaxCues == 2

Cues ==
    {[style |-> "Default", name |-> "", text |-> "Hello, world!"],
     [style |-> "Default", name |-> "Bob", text |-> "{\\i1}Hey{\\i0}"],
     [style |-> "Default", name |-> "", text |-> "Hi"],
     [style |-> "OP Romaji", name |-> "", text |-> "{\\k20}ko{\\k15}no"],
     [style |-> "Default", name |-> "", text |-> "{\\an8}{\\i1}Count to\n10\nnow"],
     [style |-> "Default", name |-> "", text |-> "<i>Yes</i>"]}

CueSeqs == UNION {[1..n -> Cues] : n \in 0..MaxCues}

CueStart(format, k) ==
    IF format = "ass" THEN "0:00:0" \o ToString(k % 10) \o ".00"
    ELSE IF format = "srt" THEN "00:00:0" \o ToString(k % 10) \o ",000"
    ELSE "00:00:0" \o ToString(k % 10) \o ".000"

CueEnd(format, k) ==
    IF format = "ass" THEN "0:00:0" \o ToString(k % 10) \o ".90"
    ELSE IF format = "srt" THEN "00:00:0" \o ToString(k % 10) \o ",900"
    ELSE "00:00:0" \o ToString(k % 10) \o ".900"

\* the text of a cue as the file has it: in ASS a line break is written \N
CueText(format, c) == IF format = "ass" THEN Replace(c.text, "\n", "\\N") ELSE c.text

\* the first nine fields of the Dialogue line of a cue, with their commas
AssEventFields(c, k) ==
    "Dialogue: 0," \o CueStart("ass", k) \o "," \o CueEnd("ass", k) \o "," \o c.style
        \o "," \o c.name \o ",0,0,0,,"

\* the Dialogue line of a cue
AssEventLine(c, k) == AssEventFields(c, k) \o CueText("ass", c)

\* the [V4+ Styles] sections: the Format line and one Style row
StandardStyles ==
    [format |-> "Format: Name, Fontname, Fontsize, Encoding",
     row |-> "Style: Default,Arial,20,1"]

StyleSections ==
    {StandardStyles,
     [format |-> "Format: Name, Fontname, Fontsize, Encoding",
      row |-> "Style: Default, Arial, 20, 1"],
     [format |-> "Format: Name, Fontname, Fontsize, Encoding",
      row |-> "style:Sign,Arial,20,128"],
     [format |-> "Format: Name, Fontname, Fontsize",
      row |-> "Style: Default,Arial,20"]}

\* has_events: whether the file has the line [Events] and its Format line
AssFileLines(cues, styles, has_events) ==
    <<"[Script Info]", "; Script generated by Aegisub", "Title: Episode 1", "",
      "[V4+ Styles]", styles.format, styles.row, "">>
        \o (IF has_events
            THEN <<"[Events]",
                   "Format: Layer, Start, End, Style, Name, MarginL, MarginR, MarginV, Effect, Text">>
            ELSE <<>>)
        \o [k \in 1..Len(cues) |-> AssEventLine(cues[k], k)]

RECURSIVE SrtFileLines(_, _)
SrtFileLines(cues, k) ==
    IF k > Len(cues) THEN <<>>
    ELSE <<ToString(k), CueStart("srt", k) \o " --> " \o CueEnd("srt", k), cues[k].text, "">>
             \o SrtFileLines(cues, k + 1)

RECURSIVE VttFileLines(_, _)
VttFileLines(cues, k) ==
    IF k > Len(cues) THEN <<>>
    ELSE <<CueStart("vtt", k) \o " --> " \o CueEnd("vtt", k) \o " align:middle",
           cues[k].text, "">>
             \o VttFileLines(cues, k + 1)

\* a file of another extension has the lines of an SRT file
FileLines(format, cues, styles, has_events) ==
    IF format = "ass" THEN AssFileLines(cues, styles, has_events)
    ELSE IF format = "vtt" THEN <<"WEBVTT", "">> \o VttFileLines(cues, 1)
    ELSE SrtFileLines(cues, 1)

Terminator(crlf) == IF crlf THEN "\r\n" ELSE "\n"

\* the bytes of the file: its lines, each but the last followed by the
\* terminator, the last one too if the file ends with a newline
FileContent(format, cues, styles, crlf, final_newline, has_events) ==
    Join(FileLines(format, cues, styles, has_events), Terminator(crlf))
        \o (IF final_newline THEN Terminator(crlf) ELSE "")

\* the extensions of the files: three that parse_subtitle_file knows and one
\* that it does not
Extensions == {"ass", "srt", "vtt", "txt"}

FileShapes ==
    {[format |-> "ass", styles |-> s, crlf |-> FALSE, final_newline |-> TRUE,
      has_events |-> TRUE] : s \in StyleSections}
    \cup {[format |-> "ass", styles |-> StandardStyles, crlf |-> c, final_newline |-> f,
           has_events |-> TRUE] : c \in BOOLEAN, f \in BOOLEAN}
    \cup {[format |-> "ass", styles |-> StandardStyles, crlf |-> FALSE,
           final_newline |-> TRUE, has_events |-> FALSE]}
    \cup {[format |-> f, styles |-> StandardStyles, crlf |-> FALSE, final_newline |-> TRUE,
           has_events |-> TRUE] : f \in Extensions \ {"ass"}}

SubtitleFile(shape, cues) ==
    [format |-> shape.format, cues |-> cues, styles |-> shape.styles,
     crlf |-> shape.crlf, final_newline |-> shape.final_newline,
     has_events |-> shape.has_events,
     file_path |-> "/video/ep01." \o shape.format,
     content |-> FileContent(shape.format, cues, shape.styles, shape.crlf,
                             shape.final_newline, shape.has_events)]

(***************************************************************************)
(* A file on its way through the program: parse_subtitle_file, the         *)
(* translation of the text of its lines, save_translated_subtitles.        *)
(***************************************************************************)
InitFile ==
    /\ EngineIdle
    /\ op = "parse_subtitle_file"
    /\ input \in {SubtitleFile(shape, cues) : shape \in FileShapes, cues \in CueSeqs}
    /\ output = [parse |-> [tag |-> "Pending"],
                 parsed |-> SubtitleData("", <<>>, None),
                 data |-> SubtitleData("", <<>>, None),
                 content |-> "",
                 reparsed |-> SubtitleData("", <<>>, None)]

\* lines 804-809: the parser of the extension
SupportedExtensions == {"ass", "ssa", "srt", "vtt", "webvtt"}

ParseByExtension(ext, content) ==
    IF ext \in {"ass", "ssa"} THEN parse_ass_file(content)
    ELSE IF ext = "srt" THEN parse_srt_file(content)
    ELSE parse_vtt_file(content)

\* lines 796-813; parsed keeps the document as returned, data is the
\* document that goes on to translate_subtitles
ParseFile ==
    /\ op = "parse_subtitle_file"
    /\ IF input.format \in SupportedExtensions
       THEN LET data == [ParseByExtension(input.format, input.content)
                            EXCEPT !.source_path = input.file_path]
            IN /\ op' = "translate_subtitles"
               /\ output' = [output EXCEPT !.parse = [tag |-> "Ok"],
                                           !.parsed = data,
                                           !.data = data]
       ELSE /\ op' = "failed"
            /\ output' = [output EXCEPT !.parse =
                             [tag |-> "Err",
                              msg |-> "Unsupported subtitle format: " \o input.format]]
    /\ UNCHANGED <<engine, input>>

\* lines 1065-1067: a document without lines is not translated
TranslateEmpty ==
    /\ op = "translate_subtitles"
    /\ output.data.line_count = 0
    /\ op' = "rejected"
    /\ UNCHANGED <<engine, input, output>>

\* the text a translation gives a line
Translated(text) == "T:" \o text

\* lines 1161-1175: the lines whose index the translation map holds get the
\* translated text, the others keep theirs; here the map holds all indices
\* or none
TranslateFile ==
    /\ op = "translate_subtitles"
    /\ output.data.line_count > 0
    /\ op' = "save_translated_subtitles"
    /\ \E ids \in {{}, {k - 1 : k \in 1..output.data.line_count}} :
          output' = [output EXCEPT !.data.lines =
                        [k \in DOMAIN @ |->
                            IF @[k].index \in ids
                            THEN [@[k] EXCEPT !.text = Translated(@)]
                            ELSE @[k]]]
    /\ UNCHANGED <<engine, input>>

\* lines 1341-1367, with the path of the original file given
SaveFile ==
    /\ op = "save_translated_subtitles"
    /\ op' = "saved"
    /\ output' = [output EXCEPT !.content =
                     IF output.data.format = "ass"
                     THEN reconstruct_ass(input.content, output.data.lines)
                     ELSE IF output.data.format = "srt"
                     THEN reconstruct_srt(output.data.lines)
                     ELSE reconstruct_vtt(output.data.lines)]
    /\ UNCHANGED <<engine, input>>

\* the saved file given to parse_subtitle_file
Reparse ==
    /\ op = "saved"
    /\ op' = "reparsed"
    /\ output' = [output EXCEPT !.reparsed =
                     [ParseByExtension(input.format, output.content)
                         EXCEPT !.source_path = "/video/ep01.translated." \o input.format]]
    /\ UNCHANGED <<engine, input>>

NextFile == ParseFile \/ TranslateEmpty \/ TranslateFile \/ SaveFile \/ Reparse

SpecFile == InitFile /\ [][NextFile]_vars

Parsed == output.parse.tag = "Ok"

Saved == op \in {"saved", "reparsed"}

\* the line of the document that came from the k-th cue of the file, if any
LineOfCue(k) ==
    {i \in DOMAIN output.data.lines :
        output.data.lines[i].start = CueStart(input.format, k)}

\* C16: the document of each parser has line_count equal to the number of
\* its lines, and its k-th line (from 0) has index k: a cue that the filter
\* rejects consumes no index.
C16_DenseIndices ==
    Parsed =>
        /\ output.data.line_count = Len(output.data.lines)
        /\ \A i \in DOMAIN output.data.lines : output.data.lines[i].index = i - 1

C16_Witness ==
    /\ op = "translate_subtitles"
    /\ Len(input.cues) = 2
    /\ LineOfCue(1) = {}
    /\ LineOfCue(2) = {1}
    /\ output.data.lines[1].index = 0
    /\ output.data.line_count = 1

\* the text of a cue as the parser of the format sees it
DialogText(format, c) ==
    IF format = "ass" THEN strip_ass_tags(CueText(format, c))
    ELSE RemoveTags(c.text, "<", ">")

\* the rules of the filter other than the length rule
OtherRuleRejects(format, c) ==
    \/ format = "ass" /\ should_skip_style(ToLower(c.style))
    \/ is_music_or_karaoke_line(IF format = "ass" THEN CueText(format, c)
                                ELSE DialogText(format, c),
                                DialogText(format, c))

\* C17: in every format a cue whose text, trimmed, has fewer than 3
\* characters is not in the document, and a cue of exactly 3 characters that
\* no other rule rejects is.
C17_ShortDropped ==
    (Parsed /\ input.has_events) =>
        \A k \in DOMAIN input.cues :
            LET n == CharCount(Trim(DialogText(input.format, input.cues[k])))
            IN /\ n < 3 => LineOfCue(k) = {}
               /\ (n = 3 /\ ~OtherRuleRejects(input.format, input.cues[k])) => LineOfCue(k) # {}

\* the bytes of the source line that carries the text of the k-th cue
SourceLine(k) ==
    IF input.format = "ass" THEN AssEventLine(input.cues[k], k) ELSE input.cues[k].text

\* C18: in every format, the source line of a cue that the filter rejected
\* is in the saved output unchanged.
C18_RejectedLinesKept ==
    Saved =>
        \A k \in DOMAIN input.cues :
            LineOfCue(k) = {} => Contains(output.content, SourceLine(k))

\* str::split_inclusive('\n'): the lines with their terminators
RECURSIVE RawLines(_)
RawLines(s) ==
    LET i == Find(s, "\n")
    IN IF s = "" THEN <<>>
       ELSE IF i = 0 THEN <<s>>
       ELSE <<SubSeq(s, 1, i)>> \o RawLines(SubSeq(s, i + 1, Len(s)))

IsDialogueOrStyle(raw) ==
    StartsWith(ToLower(Trim(raw)), "dialogue:") \/ StartsWith(ToLower(Trim(raw)), "style:")

\* C19: the output of reconstruct_ass has the lines of the original, and
\* every line that is no Dialogue line and no Style row is the same bytes,
\* terminator included; the output ends with a newline iff the original
\* does.
C19_OtherBytesKept ==
    (Saved /\ input.format = "ass") =>
        LET a == RawLines(input.content)
            b == RawLines(output.content)
        IN /\ Len(a) = Len(b)
           /\ \A k \in DOMAIN a : ~IsDialogueOrStyle(a[k]) => b[k] = a[k]
           /\ EndsWith(output.content, "\n") <=> EndsWith(input.content, "\n")

\* the Style row of the original and the row at its place in the output
StyleRowAt(content) == Lines(content)[7]

\* C20: the Style row of the output has 0 in the column the Format line
\* names Encoding and is the input row in every other column, spacing and
\* prefix included.
C20_StyleRowOnlyEncoding ==
    (Saved /\ input.format = "ass" /\ EncodingIndex(input.styles.format) # None) =>
        LET idx == EncodingIndex(input.styles.format)[1] + 1
            a == Split(input.styles.row, ",")
            b == Split(StyleRowAt(output.content), ",")
        IN /\ Len(b) = Len(a)
           /\ Trim(b[idx]) = "0"
           /\ \A i \in DOMAIN a : i # idx => b[i] = a[i]

(***************************************************************************)
(* The critical section, the progress events and the sleep of              *)
(* translate_subtitles (lines 1091-1159).                                  *)
(***************************************************************************)
\* C24: a batch task that holds the TranslationMap lock is never suspended
\* on a second lock acquisition: no task waits for the completed-batch
\* counter while it owns the map.
C24_NoAwaitInsideMapLock ==
    \A b \in DOMAIN task : map_lock = Some(b) => task[b] # "wait_completed"

IsProgress(e) == e.kind = "translation-progress"

\* the ProgressEvents of the run, in emission order
ProgressEvents == SelectSeq(events, IsProgress)

\* C25: the ProgressEvents carry current_batch 1, 2, ..., k in emission
\* order, one per successful task and none for a failed one;
\* lines_translated never decreases, and is the TranslationMap size as of
\* the merge of the event's batch (the size of the map whenever no merge
\* is under way); when the run returns a document the last event has
\* current_batch = total_batches.
C25_ProgressSequence ==
    LET pe == ProgressEvents
    IN /\ \A i \in DOMAIN pe : pe[i].current_batch = i
       /\ Len(pe) = Cardinality({b \in DOMAIN task : task[b] = "ok"})
       /\ \A i \in DOMAIN pe :
             i > 1 => pe[i - 1].lines_translated <= pe[i].lines_translated
       /\ pe # <<>> =>
             IF map_lock = None
             THEN pe[Len(pe)].lines_translated = Cardinality(DOMAIN translation_map)
             ELSE pe[Len(pe)].lines_translated <= Cardinality(DOMAIN translation_map)
       /\ result.tag = "Ok" =>
             /\ Len(pe) = total_batches
             /\ pe[Len(pe)].current_batch = total_batches

\* a run of one wave of at least two concurrent tasks that returned a
\* document, with a failed-free sequence of events whose counts differ
C25_Witness ==
    /\ result.tag = "Ok"
    /\ concurrency >= 2
    /\ Len(ProgressEvents) >= 2
    /\ ProgressEvents[1].lines_translated < ProgressEvents[2].lines_translated

\* C28: translate_subtitles sleeps only when another wave follows, and
\* never after a wave in which a task failed.
C28_SleepOnlyBetweenWaves ==
    pc = "sleep" =>
        /\ GroupLast(group) + 1 < total_batches
        /\ ~WaveFailed(handles)

\* C29: the call never aborts; it ends by returning a value.
C29_NeverPanics == pc # "panicked"

(***************************************************************************)
(* Termination of translate_subtitles.  The caller keeps polling the       *)
(* future (no Cancel); the runtime runs every task that is ready; every    *)
(* dispatched call_llm_api resolves; tokio's Mutex grants the lock to its  *)
(* waiters in turn.                                                        *)
(***************************************************************************)
MainNext ==
    \/ RejectEmpty
    \/ ChunksPanic
    \/ Plan
    \/ Spawn
    \/ JoinFail
    \/ JoinPass
    \/ Wake
    \/ Finish

NextLive == MainNext \/ TaskNext

\* the batch indices a run of the model can have
BatchIds == 0..MaxLines

\* the steps of the task of batch b, if the run has one
Resolve(b) == b \in DOMAIN task /\ (CallOk(b) \/ CallErr(b))
LockMap(b) == b \in DOMAIN task /\ Merge(b)
LockCompleted(b) == b \in DOMAIN task /\ Progress(b)

Fairness ==
    /\ WF_vars(MainNext)
    /\ \A b \in BatchIds : WF_vars(Resolve(b))
    /\ \A b \in BatchIds : SF_vars(LockMap(b))
    /\ \A b \in BatchIds : WF_vars(LockCompleted(b))

SpecLive == Init /\ [][NextLive]_vars /\ Fairness

\* C30: translate_subtitles eventually returns.
C30_EventuallyReturns == <>(pc = "returned")

TaskAt(b, where) == b \in DOMAIN task /\ task[b] = where

\* the locks are granted: a task that waits for the TranslationMap lock
\* ends, and a call that built its batches returns
LocksGranted ==
    /\ \A b \in BatchIds : TaskAt(b, "wait_map") ~> TaskAt(b, "ok")
    /\ (pc = "spawn") ~> (pc = "returned")

(***************************************************************************)
(* The saved file: the blocks of reconstruct_srt, the text field of        *)
(* reconstruct_ass, and the saved file parsed again.                       *)
(***************************************************************************)
\* the block of the k-th line as "<k>\n<start> --> <end>\n<text>\n\n"
SrtBlock(k, line) ==
    ToString(k) \o "\n" \o line.start \o " --> " \o line.end \o "\n" \o line.text \o "\n\n"

RECURSIVE SrtBlocks(_, _)
SrtBlocks(lines, k) ==
    IF k > Len(lines) THEN ""
    ELSE SrtBlock(k, lines[k]) \o SrtBlocks(lines, k + 1)

\* C21: the output of reconstruct_srt is the concatenation, in input order,
\* of the blocks "<k>\n<start> --> <end>\n<text>\n\n" of the translated
\* lines, k from 1, so that every entry, the last one too, is followed by a
\* blank line.
C21_SrtBlocksConcatenated ==
    (Saved /\ input.format = "srt") =>
        output.content = SrtBlocks(output.data.lines, 1)

\* the lines of two documents are the same, field by field
SameLines(a, b) ==
    /\ a.line_count = b.line_count
    /\ Len(a.lines) = Len(b.lines)
    /\ \A i \in DOMAIN a.lines : a.lines[i] = b.lines[i]

\* C22: when the translation left the text of every line unchanged, the
\* saved file parses to the lines of the original file: same number of
\* lines, same index, text, original_with_formatting, start, end, style and
\* name.
C22_IdentityRoundTrip ==
    (op = "reparsed" /\ output.data = output.parsed) =>
        SameLines(output.reparsed, output.parsed)

\* every consecutive {...} block at the start of a text
RECURSIVE LeadingBlocks(_)
LeadingBlocks(text) ==
    LET close == Find(text, "}")
    IN IF StartsWith(text, "{") /\ close > 0
       THEN SubSeq(text, 1, close) \o LeadingBlocks(SubSeq(text, close + 1, Len(text)))
       ELSE ""

\* the line of the saved ASS file at the place of the k-th cue
SavedEventLine(k) ==
    Lines(output.content)[Len(AssFileLines(<<>>, input.styles, TRUE)) + k]

\* C23: the Dialogue line written for a translated line has the first nine
\* fields of the original line, and as text all the leading {...} blocks of
\* the original text followed by the translated text with \N for each
\* newline.
C23_AllLeadingBlocksKept ==
    (Saved /\ input.format = "ass") =>
        \A k \in DOMAIN input.cues :
            \A i \in LineOfCue(k) :
                SavedEventLine(k) =
                    AssEventFields(input.cues[k], k)
                        \o LeadingBlocks(CueText("ass", input.cues[k]))
                        \o Replace(output.data.lines[i].text, "\n", "\\N")

\* the lines that parse_subtitle_file returned for the k-th cue of the file
ParsedOfCue(k) ==
    {i \in DOMAIN output.parsed.lines :
        output.parsed.lines[i].start = CueStart(input.format, k)}

\* C26: parse_srt_file returns at most one line per cue, and its text is
\* all the text lines of the cue joined with \n, a text line made of digits
\* included.
C26_DigitLineIsText ==
    (Parsed /\ input.format = "srt") =>
        \A k \in DOMAIN input.cues :
            /\ Cardinality(ParsedOfCue(k)) <= 1
            /\ \A i \in ParsedOfCue(k) :
                  output.parsed.lines[i].text = DialogText("srt", input.cues[k])

\* C27: parse_subtitle_file returns an error value for an ASS file without
\* an [Events] section.
C27_NoEventsIsError ==
    (op # "parse_subtitle_file" /\ input.format = "ass" /\ ~input.has_events) =>
        output.parse.tag = "Err"
====
